---- MODULE Spec2Model ----
(***************************************************************************)
(* Model of the long-document embedding pipeline of                        *)
(* examples/chatgpt/rag-quickstart/gcp/                                    *)
(*   Getting_started_with_bigquery_vector_search_and_openai.ipynb:         *)
(* batched / chunked_tokens (the token chunk generator),                   *)
(* len_safe_get_embedding (one embedding request per chunk),               *)
(* categorize_text, process_file and the ThreadPoolExecutor bulk loop.     *)
(***************************************************************************)
EXTENDS Integers, Sequences, FiniteSets, TLC

\* ------------------------------------------------------------------ bounds
\* Longest text (in characters) given to the splitter.
MaxChars == 7
\* Longest text (in characters) given to a direct call of len_safe_get_embedding.
MaxTextChars == 4
\* Largest small chunk limit tried (the limits run from MinN to MaxN).
MaxN == 4

\* The largest file index and chunk index of the ids compared with each other.
MaxIndex == 11

\* The largest number of runs of the upload cell.
MaxRuns == 3

\* Smallest chunk limit tried: below 1, so that the guard of batched acts.
MinN == 0 - 1

\* ------------------------------------------------------- program constants
EMBEDDING_CTX_LENGTH == 8191

\* ---------------------------------------------------------------- helpers
Min(a, b) == IF a < b THEN a ELSE b

RECURSIVE SeqsUpTo(_, _)
\* All sequences over S of length at most k.
SeqsUpTo(S, k) ==
    IF k = 0 THEN {<<>>}
    ELSE LET shorter == SeqsUpTo(S, k - 1)
         IN shorter \cup {Append(s, x) : s \in {t \in shorter : Len(t) = k - 1}, x \in S}

RECURSIVE Flatten(_)
\* The concatenation, in order, of a sequence of sequences.
Flatten(ss) == IF ss = <<>> THEN <<>> ELSE Head(ss) \o Flatten(Tail(ss))

RECURSIVE SumTo(_, _)
\* f[1] + ... + f[k].
SumTo(f, k) == IF k = 0 THEN 0 ELSE f[k] + SumTo(f, k - 1)

\* -------------------------------------------------------------- tokenizer
\* tiktoken's encoding is a byte-pair encoding: single characters are tokens
\* and frequent pairs are merged into one token.  The model keeps a
\* two-letter alphabet with one merge rule ("a" "b" -> one token), so that
\* the number of tokens differs from the number of characters.
Chars == {"a", "b"}

TokenOf(c) == IF c = "a" THEN 1 ELSE 2

BytesOf(tok) == IF tok = 1 THEN <<"a">> ELSE IF tok = 2 THEN <<"b">> ELSE <<"a", "b">>

RECURSIVE encode(_)
\* encoding.encode(text): every "a" followed by "b" becomes token 3, every
\* other character its own token.  A long text is cut in two at a place
\* that splits no "ab" pair, which gives the same tokens as a left-to-right scan.
encode(text) ==
    IF Len(text) = 0 THEN <<>>
    ELSE IF Len(text) = 1 THEN <<TokenOf(text[1])>>
    ELSE IF Len(text) = 2
         THEN IF text[1] = "a" /\ text[2] = "b" THEN <<3>>
              ELSE <<TokenOf(text[1]), TokenOf(text[2])>>
    ELSE LET m == Len(text) \div 2
             c == IF text[m] = "a" /\ text[m + 1] = "b" THEN m + 1 ELSE m
         IN encode(SubSeq(text, 1, c)) \o encode(SubSeq(text, c + 1, Len(text)))

RECURSIVE decode(_)
\* encoding.decode(tokens): the characters of every token, in order.
decode(tokens) ==
    IF Len(tokens) = 0 THEN <<>>
    ELSE IF Len(tokens) = 1 THEN BytesOf(tokens[1])
    ELSE LET m == Len(tokens) \div 2
         IN decode(SubSeq(tokens, 1, m)) \o decode(SubSeq(tokens, m + 1, Len(tokens)))

\* ------------------------------------------------- the chunk generator
\* A generator object of chunked_tokens(text, chunk_length): nothing of its
\* body has run when it is created.  st is "created" (not started),
\* "suspended" (at the yield), "finished" (returned) or "raised"; it is the
\* number of tokens the iterator `it` of batched has handed out.
chunked_tokens(text, chunk_length) ==
    [text |-> text, n |-> chunk_length, st |-> "created", it |-> 0]

\* Mutant: a batch shorter than n is dropped (the zip(*[iter(s)] * n) idiom).
islice_drop_short(tokens, it, n) ==
    IF it + n <= Len(tokens) THEN SubSeq(tokens, it + 1, it + n) ELSE <<>>

\* Mutant: one token too many is taken (islice(it, n + 1)).
islice_one_more(tokens, it, n) == SubSeq(tokens, it + 1, Min(it + n + 1, Len(tokens)))

\* Mutant: one token too few is taken (islice(it, n - 1)).
islice_one_fewer(tokens, it, n) == SubSeq(tokens, it + 1, Min(it + n - 1, Len(tokens)))

\* tuple(islice(it, n)): the next n tokens of the iterator, fewer at the end.
islice(tokens, it, n) == SubSeq(tokens, it + 1, Min(it + n, Len(tokens)))

\* Mutant: the guard rejects only negative limits (if n < 0).
batched_guard_negative(g) ==
    IF g.st \in {"finished", "raised"}
    THEN [gen |-> g, kind |-> "stop", batch |-> <<>>]
    ELSE IF g.st = "created" /\ g.n < 0
    THEN [gen |-> [g EXCEPT !.st = "raised"], kind |-> "ValueError", batch |-> <<>>]
    ELSE LET batch == islice(encode(g.text), g.it, g.n)
         IN IF batch = <<>>
            THEN [gen |-> [g EXCEPT !.st = "finished"], kind |-> "stop", batch |-> <<>>]
            ELSE [gen |-> [g EXCEPT !.st = "suspended", !.it = g.it + Len(batch)],
                  kind |-> "yield", batch |-> batch]

\* Mutant: the batch is cut from a copy of the tokens, so the iterator does
\* not advance (islice(tokens, n) in place of islice(it, n)).
batched_no_advance(g) ==
    IF g.st \in {"finished", "raised"}
    THEN [gen |-> g, kind |-> "stop", batch |-> <<>>]
    ELSE IF g.st = "created" /\ g.n < 1
    THEN [gen |-> [g EXCEPT !.st = "raised"], kind |-> "ValueError", batch |-> <<>>]
    ELSE LET batch == islice(encode(g.text), g.it, g.n)
         IN IF batch = <<>>
            THEN [gen |-> [g EXCEPT !.st = "finished"], kind |-> "stop", batch |-> <<>>]
            ELSE [gen |-> [g EXCEPT !.st = "suspended"], kind |-> "yield", batch |-> batch]

\* Mutant: a generator that has finished starts over at the first token on
\* the next next() (an iterable that makes a new iterator for every loop).
batched_restartable(g) ==
    IF g.st = "raised"
    THEN [gen |-> g, kind |-> "stop", batch |-> <<>>]
    ELSE IF g.st = "created" /\ g.n < 1
    THEN [gen |-> [g EXCEPT !.st = "raised"], kind |-> "ValueError", batch |-> <<>>]
    ELSE LET from == IF g.st = "finished" THEN 0 ELSE g.it
             batch == islice(encode(g.text), from, g.n)
         IN IF batch = <<>>
            THEN [gen |-> [g EXCEPT !.st = "finished"], kind |-> "stop", batch |-> <<>>]
            ELSE [gen |-> [g EXCEPT !.st = "suspended", !.it = from + Len(batch)],
                  kind |-> "yield", batch |-> batch]

\* One next() on the generator: the guard of batched on the first call, then
\* one turn of its while loop.  kind is "yield" (with the batch), "stop"
\* (StopIteration) or "ValueError".
batched(g) ==
    IF g.st \in {"finished", "raised"}
    THEN [gen |-> g, kind |-> "stop", batch |-> <<>>]
    ELSE IF g.st = "created" /\ g.n < 1
    THEN [gen |-> [g EXCEPT !.st = "raised"], kind |-> "ValueError", batch |-> <<>>]
    ELSE LET batch == islice(encode(g.text), g.it, g.n)
         IN IF batch = <<>>
            THEN [gen |-> [g EXCEPT !.st = "finished"], kind |-> "stop", batch |-> <<>>]
            ELSE [gen |-> [g EXCEPT !.st = "suspended", !.it = g.it + Len(batch)],
                  kind |-> "yield", batch |-> batch]

\* ------------------------------------------------- the embedding service
\* openai_client.embeddings.create answers a request with a vector of fixed
\* length or fails (network error, rate limit, invalid input).  Which vector
\* it answers is the service's choice.
Vectors == {<<1, 0>>, <<0, 1>>}

EmbeddingResponses ==
    {[ok |-> TRUE, embedding |-> v] : v \in Vectors} \cup {[ok |-> FALSE, embedding |-> <<>>]}

\* In a bulk run the service is taken to answer equal inputs with equal
\* vectors (the vector depends on the first token), or to fail.
EmbeddingOf(input) == IF input[1] = 1 THEN <<1, 0>> ELSE <<0, 1>>

ServiceAnswers(input) ==
    {r \in EmbeddingResponses : r.ok /\ input # <<>> => r.embedding = EmbeddingOf(input)}

\* generate_embeddings(text, model): the request, and the embedding of the
\* response or the exception the client raises.
generate_embeddings(input, response) ==
    [raised |-> ~response.ok,
     embedding |-> response.embedding,
     request |-> [input |-> input, ok |-> response.ok, embedding |-> response.embedding]]

\* ------------------------------------------------ len_safe_get_embedding
NoGen == [st |-> "none"]

\* The call len_safe_get_embedding(text, max_tokens=..., [average=...]): the
\* signature has no parameter `average`, so a call that passes it raises
\* TypeError before the body runs; otherwise the frame starts with two empty
\* lists and the generator of the for statement.  requests is the history of
\* the embedding requests the call has issued.
len_safe_get_embedding(text, max_tokens, average) ==
    IF average # "unset"
    THEN [gen |-> NoGen, chunk_embeddings |-> <<>>, chunk_texts |-> <<>>,
          requests |-> <<>>, st |-> "raised", exc |-> "TypeError"]
    ELSE [gen |-> chunked_tokens(text, max_tokens), chunk_embeddings |-> <<>>,
          chunk_texts |-> <<>>, requests |-> <<>>, st |-> "running", exc |-> "none"]

\* Mutant: a failed embedding request is swallowed and the chunk skipped
\* (try: ... except: continue around the request).
for_chunk_skip_failed(frame, response) ==
    LET r == batched(frame.gen)
    IN IF r.kind = "ValueError"
       THEN [frame EXCEPT !.gen = r.gen, !.st = "raised", !.exc = "ValueError"]
       ELSE IF r.kind = "stop"
       THEN [frame EXCEPT !.gen = r.gen, !.st = "returned"]
       ELSE LET e == generate_embeddings(r.batch, response)
            IN IF e.raised
               THEN [frame EXCEPT !.gen = r.gen, !.requests = Append(@, e.request)]
               ELSE [frame EXCEPT !.gen = r.gen,
                                  !.chunk_embeddings = Append(@, e.embedding),
                                  !.chunk_texts = Append(@, decode(r.batch)),
                                  !.requests = Append(@, e.request)]

\* Mutant: a failed embedding request is issued a second time for the same
\* chunk before the error leaves the function.
for_chunk_retry_once(frame, response) ==
    LET r == batched(frame.gen)
    IN IF r.kind = "ValueError"
       THEN [frame EXCEPT !.gen = r.gen, !.st = "raised", !.exc = "ValueError"]
       ELSE IF r.kind = "stop"
       THEN [frame EXCEPT !.gen = r.gen, !.st = "returned"]
       ELSE LET e == generate_embeddings(r.batch, response)
            IN IF e.raised
               THEN [frame EXCEPT !.gen = r.gen, !.st = "raised", !.exc = "APIError",
                                  !.requests = @ \o <<e.request, e.request>>]
               ELSE [frame EXCEPT !.gen = r.gen,
                                  !.chunk_embeddings = Append(@, e.embedding),
                                  !.chunk_texts = Append(@, decode(r.batch)),
                                  !.requests = Append(@, e.request)]

\* Mutant: the chunk texts are collected newest first (insert(0, ...)).
for_chunk_texts_reversed(frame, response) ==
    LET r == batched(frame.gen)
    IN IF r.kind = "ValueError"
       THEN [frame EXCEPT !.gen = r.gen, !.st = "raised", !.exc = "ValueError"]
       ELSE IF r.kind = "stop"
       THEN [frame EXCEPT !.gen = r.gen, !.st = "returned"]
       ELSE LET e == generate_embeddings(r.batch, response)
            IN IF e.raised
               THEN [frame EXCEPT !.gen = r.gen, !.st = "raised", !.exc = "APIError",
                                  !.requests = Append(@, e.request)]
               ELSE [frame EXCEPT !.gen = r.gen,
                                  !.chunk_embeddings = Append(@, e.embedding),
                                  !.chunk_texts = <<decode(r.batch)>> \o @,
                                  !.requests = Append(@, e.request)]

\* One turn of the for statement of len_safe_get_embedding: next() on the
\* chunk generator, then the embedding request for the chunk and the two
\* appends; the end of the generator returns the two lists, an exception of
\* the generator or of the request leaves the function.
for_chunk(frame, response) ==
    LET r == batched(frame.gen)
    IN IF r.kind = "ValueError"
       THEN [frame EXCEPT !.gen = r.gen, !.st = "raised", !.exc = "ValueError"]
       ELSE IF r.kind = "stop"
       THEN [frame EXCEPT !.gen = r.gen, !.st = "returned"]
       ELSE LET e == generate_embeddings(r.batch, response)
            IN IF e.raised
               THEN [frame EXCEPT !.gen = r.gen, !.st = "raised", !.exc = "APIError",
                                  !.requests = Append(@, e.request)]
               ELSE [frame EXCEPT !.gen = r.gen,
                                  !.chunk_embeddings = Append(@, e.embedding),
                                  !.chunk_texts = Append(@, decode(r.batch)),
                                  !.requests = Append(@, e.request)]

\* return chunk_embeddings, chunk_texts
Returned(frame) == <<frame.chunk_embeddings, frame.chunk_texts>>

\* ------------------------------------------------------------------ state
VARIABLES
    chunks_iterator,   \* the generator a consumer of chunked_tokens iterates
    batches,           \* the chunks that consumer has received, in order
    outcome,           \* "iterating", "exhausted" or "ValueError"
    again,             \* a second loop over the same generator: "no", "iterating", "exhausted"
    batches_again,     \* the chunks the second loop has received, in order
    invocation,        \* the arguments of a direct call of len_safe_get_embedding
    call,              \* the frame of that call
    files,             \* the file names listed in the folder, in list order
    futures,           \* futures[k]: the task submitted for files[k] (idx = k - 1)
    data,              \* the rows the bulk loop has collected
    errors,            \* the messages the bulk loop has printed (line 471)
    collected,         \* the futures as_completed has handed out, in order
    main,              \* where the main thread is
    csv,               \* the rows written to embedded_data.csv
    table,             \* the BigQuery table embedded_data
    uploads            \* the outcome of each run of the upload cell, in order

splitVars == <<chunks_iterator, batches, outcome, again, batches_again>>

embedVars == <<invocation, call>>

bulkVars == <<files, futures, data, errors, collected, main, csv>>

uploadVars == <<table, uploads>>

vars == <<chunks_iterator, batches, outcome, again, batches_again, invocation, call,
          files, futures, data, errors, collected, main, csv, table, uploads>>

\* The values of the parts of the state a specification leaves unused.
NoCall == [st |-> "none"]

SplitIdle ==
    /\ chunks_iterator = NoGen
    /\ batches = <<>>
    /\ outcome = "none"
    /\ again = "no"
    /\ batches_again = <<>>

EmbedIdle == invocation = NoCall /\ call = NoCall

\* The table before any run of the upload cell: absent.  created counts the
\* creations of the table.
NoTable == [exists |-> FALSE, rows |-> <<>>, created |-> 0]

UploadIdle == table = NoTable /\ uploads = <<>>

BulkIdle ==
    /\ files = <<>>
    /\ futures = <<>>
    /\ data = <<>>
    /\ errors = <<>>
    /\ collected = <<>>
    /\ main = "none"
    /\ csv = <<>>

\* ----------------------------------------------------- splitter, stand-alone
\* The 9000-token document of the specification's scenario.
ScenarioText == [i \in 1..9000 |-> IF i <= 4500 THEN "b" ELSE "a"]

SplitInputs ==
    {<<t, n>> : t \in SeqsUpTo(Chars, MaxChars), n \in (MinN..MaxN) \cup {EMBEDDING_CTX_LENGTH}}
        \cup {<<ScenarioText, EMBEDDING_CTX_LENGTH>>}

SplitInit ==
    \E inp \in SplitInputs :
        /\ chunks_iterator = chunked_tokens(inp[1], inp[2])
        /\ batches = <<>>
        /\ outcome = "iterating"
        /\ again = "no"
        /\ batches_again = <<>>
        /\ EmbedIdle
        /\ BulkIdle
        /\ UploadIdle

\* for chunk in chunked_tokens(...): one turn of a consuming loop.
ConsumeChunk ==
    /\ outcome = "iterating"
    /\ LET r == batched(chunks_iterator)
       IN /\ chunks_iterator' = r.gen
          /\ \/ /\ r.kind = "yield"
                /\ batches' = Append(batches, r.batch)
                /\ outcome' = outcome
             \/ /\ r.kind = "stop"
                /\ batches' = batches
                /\ outcome' = "exhausted"
             \/ /\ r.kind = "ValueError"
                /\ batches' = batches
                /\ outcome' = "ValueError"
    /\ UNCHANGED <<again, batches_again, embedVars, bulkVars, uploadVars>>

\* The consumer loops a second time over the generator its first loop has
\* exhausted: one turn of that second loop.
ConsumeAgain ==
    /\ outcome = "exhausted"
    /\ again # "exhausted"
    /\ LET r == batched(chunks_iterator)
       IN /\ chunks_iterator' = r.gen
          /\ batches_again' =
                 IF r.kind = "yield" THEN Append(batches_again, r.batch) ELSE batches_again
          /\ again' = IF r.kind = "yield" THEN "iterating" ELSE "exhausted"
    /\ UNCHANGED <<batches, outcome, embedVars, bulkVars, uploadVars>>

SplitNext == ConsumeChunk \/ ConsumeAgain

SplitSpec == SplitInit /\ [][SplitNext]_vars

\* The short texts, with every limit, for the runs of a consumer that keeps
\* iterating.
SplitFairInit ==
    \E t \in SeqsUpTo(Chars, MaxTextChars), n \in (MinN..MaxN) \cup {EMBEDDING_CTX_LENGTH} :
        /\ chunks_iterator = chunked_tokens(t, n)
        /\ batches = <<>>
        /\ outcome = "iterating"
        /\ again = "no"
        /\ batches_again = <<>>
        /\ EmbedIdle
        /\ BulkIdle
        /\ UploadIdle

\* The consuming loop keeps asking for the next chunk until the generator
\* stops or raises.
SplitFairSpec == SplitFairInit /\ [][SplitNext]_vars /\ WF_vars(ConsumeChunk)

\* The sizes of the chunks received so far.
BatchSizes == [i \in 1..Len(batches) |-> Len(batches[i])]

\* C1: for every token sequence T and every limit M >= 1 the chunks yielded,
\* concatenated in order, are a prefix of T at every moment of the iteration
\* and all of T once the generator is exhausted: no token is dropped,
\* duplicated or reordered.
C1_ChunksConcatenateToTokens ==
    outcome \in {"iterating", "exhausted"} /\ chunks_iterator.n >= 1 =>
        LET T == encode(chunks_iterator.text)
        IN /\ Flatten(batches) = SubSeq(T, 1, chunks_iterator.it)
           /\ (outcome = "exhausted" => Flatten(batches) = T)

\* A finished split into at least three chunks whose last chunk is short.
C1_Witness ==
    /\ outcome = "exhausted"
    /\ Len(batches) >= 3
    /\ Len(batches[Len(batches)]) < chunks_iterator.n

\* C2: for M >= 1 every chunk yielded has between 1 and M tokens, every chunk
\* but the last has exactly M, and a text of zero tokens yields no chunk.
C2_ChunkSizes ==
    outcome \in {"iterating", "exhausted"} /\ chunks_iterator.n >= 1 =>
        /\ \A i \in 1..Len(batches) :
              /\ BatchSizes[i] >= 1
              /\ BatchSizes[i] <= chunks_iterator.n
              /\ (i < Len(batches) => BatchSizes[i] = chunks_iterator.n)
        /\ (encode(chunks_iterator.text) = <<>> => batches = <<>>)

\* A finished split into one full chunk and a last chunk of a single token.
C2_Witness ==
    /\ outcome = "exhausted"
    /\ chunks_iterator.n >= 2
    /\ BatchSizes = <<chunks_iterator.n, 1>>

\* C3: a sequence of N tokens split with limit M >= 1 gives ceil(N / M)
\* chunks; 7 tokens with M = 3 give sizes 3, 3, 1; 9000 tokens with
\* M = 8191 give sizes 8191, 809; M = 1 gives N chunks of one token.
C3_ChunkCount ==
    outcome = "exhausted" =>
        LET N == Len(encode(chunks_iterator.text))
            M == chunks_iterator.n
        IN /\ Len(batches) = (N + M - 1) \div M
           /\ (N = 7 /\ M = 3 => BatchSizes = <<3, 3, 1>>)
           /\ (N = 9000 /\ M = 8191 => BatchSizes = <<8191, 809>>)
           /\ (M = 1 => Len(batches) = N /\ \A i \in 1..N : BatchSizes[i] = 1)

\* The 9000-token document has been split with the limit 8191.
C3_Witness ==
    /\ outcome = "exhausted"
    /\ Len(encode(chunks_iterator.text)) = 9000
    /\ chunks_iterator.n = 8191
    /\ Len(batches) = 2

\* ------------------------------------- len_safe_get_embedding, called directly
Invocations ==
    [text : SeqsUpTo(Chars, MaxTextChars),
     max_tokens : (MinN..MaxN) \cup {EMBEDDING_CTX_LENGTH},
     average : {"unset", "True", "False"}]

EmbedInit ==
    /\ invocation \in Invocations
    /\ call = NoCall
    /\ SplitIdle
    /\ BulkIdle
    /\ UploadIdle

\* The caller makes the call.
CallLenSafe ==
    /\ call = NoCall
    /\ invocation # NoCall
    /\ call' = len_safe_get_embedding(invocation.text, invocation.max_tokens,
                                      invocation.average)
    /\ UNCHANGED <<invocation, splitVars, bulkVars, uploadVars>>

\* The call runs one turn of its loop; the service picks its response.
EmbedChunk ==
    /\ call # NoCall
    /\ call.st = "running"
    /\ \E response \in EmbeddingResponses : call' = for_chunk(call, response)
    /\ UNCHANGED <<invocation, splitVars, bulkVars, uploadVars>>

EmbedNext == CallLenSafe \/ EmbedChunk

EmbedSpec == EmbedInit /\ [][EmbedNext]_vars

\* ------------------------------------------------------------ categorize_text
categories ==
    <<"authentication", "models", "techniques", "tools", "setup", "billing_limits", "other">>

\* The completions the chat service may answer (free text, not enforced to
\* be a label), and its failure.
Completions == {"models", "The category is models."}

ChatResponses ==
    {[ok |-> TRUE, content |-> c] : c \in Completions} \cup {[ok |-> FALSE, content |-> ""]}

\* Python's None, and a string value.
None == [none |-> TRUE, content |-> ""]

Some(c) == [none |-> FALSE, content |-> c]

\* Mutant: a completion that is not one of the labels is replaced by "other".
categorize_text_validates(text, cats, response) ==
    IF response.ok
    THEN [category |-> IF \E i \in 1..Len(cats) : cats[i] = response.content
                       THEN Some(response.content) ELSE Some("other"),
          printed |-> FALSE, raised |-> FALSE]
    ELSE [category |-> None, printed |-> TRUE, raised |-> FALSE]

\* Mutant: the exception of the chat request is not caught.
categorize_text_reraises(text, cats, response) ==
    IF response.ok
    THEN [category |-> Some(response.content), printed |-> FALSE, raised |-> FALSE]
    ELSE [category |-> None, printed |-> FALSE, raised |-> TRUE]

\* categorize_text(text, categories): the content of the completion; an
\* exception of the request is caught, printed and answered with None.
categorize_text(text, cats, response) ==
    IF response.ok
    THEN [category |-> Some(response.content), printed |-> FALSE, raised |-> FALSE]
    ELSE [category |-> None, printed |-> TRUE, raised |-> FALSE]

\* ---------------------------------------------------------------- process_file
DigitChars == <<"0", "1", "2", "3", "4", "5", "6", "7", "8", "9">>

RECURSIVE str(_)
\* The decimal digits of a natural number, as in an f-string.
str(k) ==
    IF k < 10 THEN <<DigitChars[k + 1]>>
    ELSE str(k \div 10) \o <<DigitChars[(k % 10) + 1]>>

\* Mutant: the id is built without the separator (f"{idx}{i}").
RowId_no_separator(idx, i) == str(idx) \o str(i)

\* f"{idx}_{i}"
RowId(idx, i) == str(idx) \o <<"_">> \o str(i)

RECURSIVE JoinNumbers(_)
JoinNumbers(v) ==
    IF Len(v) = 0 THEN <<>>
    ELSE IF Len(v) = 1 THEN str(v[1])
    ELSE str(v[1]) \o <<",", " ">> \o JoinNumbers(Tail(v))

\* json.dumps of a list of numbers.
json_dumps(v) == <<"[">> \o JoinNumbers(v) \o <<"]">>

RECURSIVE Join(_)
\* ' '.join(texts)
Join(texts) ==
    IF Len(texts) = 0 THEN <<>>
    ELSE IF Len(texts) = 1 THEN texts[1]
    ELSE texts[1] \o <<" ">> \o Join(Tail(texts))

\* The documents of the folder: a file name (which is the title) and the
\* text read from the file.  The long document has one token more than
\* EMBEDDING_CTX_LENGTH, so it makes two chunks.
LongText == [i \in 1..(EMBEDDING_CTX_LENGTH + 2) |-> IF i = 2 THEN "b" ELSE "a"]

Folder ==
    {[name |-> <<"a">>, text |-> <<"a", "b", "b">>],
     [name |-> <<"b">>, text |-> <<"b", "a">>],
     [name |-> <<"a", "a">>, text |-> <<"a">>],
     [name |-> <<"b", "b">>, text |-> <<>>],
     [name |-> <<"b", "a">>, text |-> LongText]}

FileText(name) == (CHOOSE d \in Folder : d.name = name).text

\* The task of one file before a worker runs it, and the locals of
\* process_file while it runs.  trace is the history of the service
\* requests the task has made; exc is the exception the task raised and
\* exc_file the file path its text names (none but for a failed open).
NewTask ==
    [pc |-> "pending", frame |-> NoCall,
     title_vectors |-> <<>>, title_text |-> <<>>,
     content_vectors |-> <<>>, content_text |-> <<>>,
     category |-> None, cat_printed |-> FALSE,
     trace |-> <<>>, result |-> <<>>, exc |-> "none", exc_file |-> <<>>]

\* The request, if any, that a loop turn from frame old to frame new made.
Requested(old, new, kind) ==
    IF Len(new.requests) > Len(old.requests)
    THEN <<[kind |-> kind, ok |-> new.requests[Len(new.requests)].ok]>>
    ELSE <<>>

\* process_file up to the call for the title: the file is read (which may
\* fail) and len_safe_get_embedding(title, embeddings_model) is called.
process_file_read(task, name, readable) ==
    IF ~readable
    THEN [task EXCEPT !.pc = "failed", !.exc = "OSError", !.exc_file = name]
    ELSE [task EXCEPT !.pc = "title",
                      !.frame = len_safe_get_embedding(name, EMBEDDING_CTX_LENGTH, "unset")]

\* One loop turn of the title call; its return starts the content call.
process_file_title(task, name, response) ==
    LET f == for_chunk(task.frame, response)
        t == [task EXCEPT !.trace = @ \o Requested(task.frame, f, "title")]
    IN IF f.st = "running" THEN [t EXCEPT !.frame = f]
       ELSE IF f.st = "raised"
       THEN [t EXCEPT !.pc = "failed", !.exc = f.exc, !.frame = NoCall]
       ELSE [t EXCEPT !.pc = "content",
                      !.title_vectors = Returned(f)[1],
                      !.title_text = Returned(f)[2],
                      !.frame = len_safe_get_embedding(FileText(name), EMBEDDING_CTX_LENGTH,
                                                       "unset")]

\* Mutant: a failed request of the content call ends the call with the
\* vectors and texts of the chunks embedded so far.
process_file_content_keeps_partial(task, response) ==
    LET f == for_chunk(task.frame, response)
        t == [task EXCEPT !.trace = @ \o Requested(task.frame, f, "content")]
    IN IF f.st = "running" THEN [t EXCEPT !.frame = f]
       ELSE [t EXCEPT !.pc = "categorize",
                      !.content_vectors = f.chunk_embeddings,
                      !.content_text = f.chunk_texts,
                      !.frame = NoCall]

\* One loop turn of the content call; its return leads to categorize_text.
process_file_content(task, response) ==
    LET f == for_chunk(task.frame, response)
        t == [task EXCEPT !.trace = @ \o Requested(task.frame, f, "content")]
    IN IF f.st = "running" THEN [t EXCEPT !.frame = f]
       ELSE IF f.st = "raised"
       THEN [t EXCEPT !.pc = "failed", !.exc = f.exc, !.frame = NoCall]
       ELSE [t EXCEPT !.pc = "categorize",
                      !.content_vectors = Returned(f)[1],
                      !.content_text = Returned(f)[2],
                      !.frame = NoCall]

\* Mutant: the rows are built newest first (data.insert(0, ...)).
rows_reversed(task, idx, category) ==
    LET n == Len(task.content_vectors)
    IN [j \in 1..n |->
          LET i == n + 1 - j
          IN [id |-> RowId(idx, i - 1),
              vector_id |-> RowId(idx, i - 1),
              title |-> task.title_text[1],
              text |-> task.content_text[i],
              title_vector |-> json_dumps(task.title_vectors[1]),
              content_vector |-> json_dumps(task.content_vectors[i]),
              category |-> category]]

\* Mutant: the title vector of row i is taken at index i of the content
\* vectors.
rows_title_vector_per_chunk(task, idx, category) ==
    [i \in 1..Len(task.content_vectors) |->
        [id |-> RowId(idx, i - 1),
         vector_id |-> RowId(idx, i - 1),
         title |-> task.title_text[1],
         text |-> task.content_text[i],
         title_vector |-> json_dumps(task.content_vectors[i]),
         content_vector |-> json_dumps(task.content_vectors[i]),
         category |-> category]]

\* Mutant: every row carries the vector of the first chunk.
rows_first_vector(task, idx, category) ==
    [i \in 1..Len(task.content_vectors) |->
        [id |-> RowId(idx, i - 1),
         vector_id |-> RowId(idx, i - 1),
         title |-> task.title_text[1],
         text |-> task.content_text[i],
         title_vector |-> json_dumps(task.title_vectors[1]),
         content_vector |-> json_dumps(task.content_vectors[1]),
         category |-> category]]

\* The rows process_file builds: one per content vector, in order.
rows(task, idx, category) ==
    [i \in 1..Len(task.content_vectors) |->
        [id |-> RowId(idx, i - 1),
         vector_id |-> RowId(idx, i - 1),
         title |-> task.title_text[1],
         text |-> task.content_text[i],
         title_vector |-> json_dumps(task.title_vectors[1]),
         content_vector |-> json_dumps(task.content_vectors[i]),
         category |-> category]]

\* Mutant: process_file reads content_text[0] before it builds the rows, so
\* a content without chunks raises IndexError.
process_file_rows_needs_content(task, idx, response) ==
    LET c == categorize_text(Join(task.content_text), categories, response)
        t == [task EXCEPT !.trace = Append(@, [kind |-> "categorize", ok |-> response.ok])]
    IN IF c.raised
       THEN [t EXCEPT !.pc = "failed", !.exc = "APIError"]
       ELSE IF task.content_text = <<>> \/ task.title_text = <<>>
       THEN [t EXCEPT !.pc = "failed", !.exc = "IndexError",
                      !.category = c.category, !.cat_printed = c.printed]
       ELSE [t EXCEPT !.pc = "done",
                      !.category = c.category, !.cat_printed = c.printed,
                      !.result = rows(task, idx, c.category)]

\* The rest of process_file: categorize_text, the rows, the return.
process_file_rows(task, idx, response) ==
    LET c == categorize_text(Join(task.content_text), categories, response)
        t == [task EXCEPT !.trace = Append(@, [kind |-> "categorize", ok |-> response.ok])]
    IN IF c.raised
       THEN [t EXCEPT !.pc = "failed", !.exc = "APIError"]
       ELSE IF Len(task.content_vectors) > 0 /\ task.title_text = <<>>
       THEN [t EXCEPT !.pc = "failed", !.exc = "IndexError",
                      !.category = c.category, !.cat_printed = c.printed]
       ELSE [t EXCEPT !.pc = "done",
                      !.category = c.category, !.cat_printed = c.printed,
                      !.result = rows(task, idx, c.category)]

\* -------------------------------------------------------------- the bulk loop
\* Mutant: future.result() is called outside a try block, so the exception
\* of a failed task leaves the loop.
as_completed_body_no_try(future, d, e) ==
    IF future.pc = "done"
    THEN [data |-> d \o future.result, errors |-> e, main |-> "collecting"]
    ELSE [data |-> d, errors |-> e, main |-> "aborted"]

\* The line the loop prints for the exception of a task: str(e) only, that
\* is the kind of the exception and the file path its text names, if any.
ErrorMessage(future) == [exc |-> future.exc, file |-> future.exc_file]

\* One turn of the loop over as_completed(futures): the rows of a task that
\* returned extend data, the exception of a task that raised is printed.
as_completed_body(future, d, e) ==
    IF future.pc = "done"
    THEN [data |-> d \o future.result, errors |-> e, main |-> "collecting"]
    ELSE [data |-> d, errors |-> Append(e, ErrorMessage(future)), main |-> "collecting"]

\* The lists of files the folder listing may give.
FileLists ==
    {<<<<"a">>, <<"b">>, <<"a", "a">>>>,
     <<<<"b", "a">>, <<"a">>>>,
     <<<<"b", "b">>, <<"b">>>>}

BulkInit ==
    /\ files \in FileLists
    /\ futures = <<>>
    /\ data = <<>>
    /\ errors = <<>>
    /\ collected = <<>>
    /\ main = "submitting"
    /\ csv = <<>>
    /\ SplitIdle
    /\ EmbedIdle
    /\ UploadIdle

\* executor.submit(process_file, file_path, idx, ...) for the next file.
Submit ==
    /\ main = "submitting"
    /\ Len(futures) < Len(files)
    /\ futures' = Append(futures, NewTask)
    /\ UNCHANGED <<files, data, errors, collected, main, csv, splitVars, embedVars, uploadVars>>

\* All files are submitted: the loop over as_completed(futures) starts.
AsCompleted ==
    /\ main = "submitting"
    /\ Len(futures) = Len(files)
    /\ main' = "collecting"
    /\ UNCHANGED <<files, futures, data, errors, collected, csv, splitVars, embedVars, uploadVars>>

\* A worker thread starts the task of file k.  The pool has at least five
\* threads (min(32, cpu_count + 4)), so no task of these lists waits for one.
StartFile(k) ==
    /\ futures[k].pc = "pending"
    /\ \E readable \in BOOLEAN :
          futures' = [futures EXCEPT ![k] = process_file_read(@, files[k], readable)]
    /\ UNCHANGED <<files, data, errors, collected, main, csv, splitVars, embedVars, uploadVars>>

TitleTurn(k) ==
    /\ futures[k].pc = "title"
    /\ \E response \in ServiceAnswers(batched(futures[k].frame.gen).batch) :
          futures' = [futures EXCEPT ![k] = process_file_title(@, files[k], response)]
    /\ UNCHANGED <<files, data, errors, collected, main, csv, splitVars, embedVars, uploadVars>>

ContentTurn(k) ==
    /\ futures[k].pc = "content"
    /\ \E response \in ServiceAnswers(batched(futures[k].frame.gen).batch) :
          futures' = [futures EXCEPT ![k] = process_file_content(@, response)]
    /\ UNCHANGED <<files, data, errors, collected, main, csv, splitVars, embedVars, uploadVars>>

\* Mutant: process_file has no list of its own; the worker thread appends
\* its rows to the data of the bulk loop.
Categorize_shared_data(k) ==
    /\ futures[k].pc = "categorize"
    /\ \E response \in ChatResponses :
          LET t == process_file_rows(futures[k], k - 1, response)
          IN /\ futures' = [futures EXCEPT ![k] = [t EXCEPT !.result = <<>>]]
             /\ data' = data \o t.result
    /\ UNCHANGED <<files, errors, collected, main, csv, splitVars, embedVars, uploadVars>>

Categorize(k) ==
    /\ futures[k].pc = "categorize"
    /\ \E response \in ChatResponses :
          futures' = [futures EXCEPT ![k] = process_file_rows(@, k - 1, response)]
    /\ UNCHANGED <<files, data, errors, collected, main, csv, splitVars, embedVars, uploadVars>>

\* Mutant: as_completed hands out any finished future, once per submitted
\* file, whether or not it has handed it out before.
Collect_any_finished(k) ==
    /\ main = "collecting"
    /\ futures[k].pc \in {"done", "failed"}
    /\ Len(collected) < Len(futures)
    /\ LET r == as_completed_body(futures[k], data, errors)
       IN /\ data' = r.data
          /\ errors' = r.errors
          /\ main' = r.main
    /\ collected' = Append(collected, k)
    /\ UNCHANGED <<files, futures, csv, splitVars, embedVars, uploadVars>>

\* as_completed hands out a finished future it has not handed out yet.
Collect(k) ==
    /\ main = "collecting"
    /\ futures[k].pc \in {"done", "failed"}
    /\ \A i \in 1..Len(collected) : collected[i] # k
    /\ LET r == as_completed_body(futures[k], data, errors)
       IN /\ data' = r.data
          /\ errors' = r.errors
          /\ main' = r.main
    /\ collected' = Append(collected, k)
    /\ UNCHANGED <<files, futures, csv, splitVars, embedVars, uploadVars>>

\* The loop and the with block are left; the rows are written to the CSV file.
WriteCSV ==
    /\ main = "collecting"
    /\ Len(collected) = Len(futures)
    /\ main' = "written"
    /\ csv' = data
    /\ UNCHANGED <<files, futures, data, errors, collected, splitVars, embedVars, uploadVars>>

\* The steps of the worker threads, and of the loop of the main thread.
Read == \E k \in 1..Len(futures) : StartFile(k)

EmbedTitle == \E k \in 1..Len(futures) : TitleTurn(k)

EmbedContent == \E k \in 1..Len(futures) : ContentTurn(k)

CategorizeAndReturn == \E k \in 1..Len(futures) : Categorize(k)

CollectOne == \E k \in 1..Len(futures) : Collect(k)

BulkNext ==
    \/ Submit
    \/ AsCompleted
    \/ Read
    \/ EmbedTitle
    \/ EmbedContent
    \/ CategorizeAndReturn
    \/ CollectOne
    \/ WriteCSV

BulkSpec == BulkInit /\ [][BulkNext]_vars

\* ------------------------------------------------------ the upload cell
\* str.split(sep): the pieces of s between the separators.
RECURSIVE split(_, _)
split(s, sep) ==
    IF \E i \in 1..Len(s) : s[i] = sep
    THEN LET i == CHOOSE i \in 1..Len(s) : s[i] = sep /\ \A j \in 1..(i - 1) : s[j] # sep
         IN <<SubSeq(s, 1, i - 1)>> \o split(SubSeq(s, i + 1, Len(s)), sep)
    ELSE <<s>>

DigitValue(c) == CHOOSE d \in 0..9 : DigitChars[d + 1] = c

\* The number a sequence of decimal digits writes.
RECURSIVE ParseDigits(_)
ParseDigits(d) ==
    IF Len(d) = 1 THEN DigitValue(d[1])
    ELSE 10 * ParseDigits(SubSeq(d, 1, Len(d) - 1)) + DigitValue(d[Len(d)])

\* float(x) on the text of a whole number: surrounding blanks are ignored.
float(x) == ParseDigits(SelectSeq(x, LAMBDA c : c # " "))

\* preprocess_content_vector(row): the text of the vector without its
\* brackets, split at the commas, each piece converted to a number.
preprocess_content_vector(row) ==
    LET parts == split(SubSeq(row.content_vector, 2, Len(row.content_vector) - 1), ",")
    IN [row EXCEPT !.content_vector = [i \in 1..Len(parts) |-> float(parts[i])]]

\* df.apply(preprocess_content_vector, axis=1) and df.to_dict(orient='records').
rows_to_insert(df) == [i \in 1..Len(df) |-> preprocess_content_vector(df[i])]

\* client.create_table(final_table, exists_ok=True): the table is created
\* when it does not exist, and left as it is when it does.
create_table(t) ==
    [t EXCEPT !.exists = TRUE, !.created = IF t.exists THEN @ ELSE @ + 1]

\* Mutant: a row whose id is already in the table is not inserted again.
insert_rows_json_unique_ids(t, json_rows, accepted) ==
    IF accepted
    THEN [t EXCEPT !.rows = @ \o SelectSeq(json_rows,
                                  LAMBDA row : \A i \in 1..Len(t.rows) : t.rows[i].id # row.id)]
    ELSE t

\* client.insert_rows_json(table, rows_to_insert): the service appends the
\* rows to the table, or answers with errors and inserts none.
insert_rows_json(t, json_rows, accepted) ==
    IF accepted THEN [t EXCEPT !.rows = @ \o json_rows] ELSE t

\* What one run of the cell meets: the rows are inserted, the insertion
\* answers with errors, or the request that creates the table raises.
UploadOutcomes == {"inserted", "errors", "create_failed"}

\* A row of embedded_data.csv.
CsvRow(idx, i, v) ==
    [id |-> RowId(idx, i), vector_id |-> RowId(idx, i),
     title |-> <<"a">>, text |-> <<"a", "b">>,
     title_vector |-> json_dumps(<<1, 0>>), content_vector |-> json_dumps(v),
     category |-> Some("models")]

\* The CSV files the cell is run over: one row, or two rows of one file.
UploadFiles ==
    {<<CsvRow(0, 0, v)>> : v \in Vectors}
        \cup {<<CsvRow(0, 0, v), CsvRow(0, 1, w)>> : v \in Vectors, w \in Vectors}

UploadInit ==
    /\ csv \in UploadFiles
    /\ main = "written"
    /\ files = <<>>
    /\ futures = <<>>
    /\ data = <<>>
    /\ errors = <<>>
    /\ collected = <<>>
    /\ table \in {NoTable, [NoTable EXCEPT !.exists = TRUE]}
    /\ uploads = <<>>
    /\ SplitIdle
    /\ EmbedIdle

\* One run of the cell that creates the table and uploads the CSV file.
RunUploadCell ==
    /\ main = "written"
    /\ Len(uploads) < MaxRuns
    /\ \E o \in UploadOutcomes :
          /\ table' = IF o = "create_failed" THEN table
                       ELSE insert_rows_json(create_table(table), rows_to_insert(csv),
                                             o = "inserted")
          /\ uploads' = Append(uploads, o)
    /\ UNCHANGED <<files, futures, data, errors, collected, main, csv, splitVars, embedVars>>

UploadNext == RunUploadCell

UploadSpec == UploadInit /\ [][UploadNext]_vars

\* The i-th chunk of the token sequence T under the limit M, and their number.
ExpectedChunk(T, M, i) == SubSeq(T, (i - 1) * M + 1, Min(i * M, Len(T)))

NumChunks(T, M) == (Len(T) + M - 1) \div M

\* C4: a call with max_tokens < 1 yields no chunk, issues no embedding
\* request and returns nothing: its first step raises ValueError out of the
\* chunk generator and out of len_safe_get_embedding.
C4_NonPositiveLimitRaises ==
    call # NoCall /\ invocation.average = "unset" /\ invocation.max_tokens < 1 =>
        /\ call.requests = <<>>
        /\ call.gen.it = 0
        /\ call.st # "returned"
        /\ (call.gen.st # "created" =>
                call.gen.st = "raised" /\ call.st = "raised" /\ call.exc = "ValueError")

\* A call on a text that has tokens, with a limit below 1, has raised ValueError.
C4_Witness ==
    /\ call # NoCall
    /\ invocation.max_tokens < 1
    /\ Len(invocation.text) >= 2
    /\ call.st = "raised"
    /\ call.exc = "ValueError"

\* C5: when len_safe_get_embedding returns, chunk_embeddings and chunk_texts
\* have one entry per chunk of the text, entry i of chunk_texts is the
\* decoding of chunk i and entry i of chunk_embeddings is the vector the
\* service answered to the request made for chunk i.
C5_ListsMatchChunks ==
    call # NoCall /\ call.st = "returned" =>
        LET T == encode(invocation.text)
            M == invocation.max_tokens
            K == NumChunks(T, M)
        IN /\ Len(Returned(call)[1]) = K
           /\ Len(Returned(call)[2]) = K
           /\ Len(call.requests) = K
           /\ \A i \in 1..K :
                 /\ Returned(call)[2][i] = decode(ExpectedChunk(T, M, i))
                 /\ call.requests[i].input = ExpectedChunk(T, M, i)
                 /\ call.requests[i].ok
                 /\ Returned(call)[1][i] = call.requests[i].embedding

\* A call has returned two chunks with different texts and different vectors.
C5_Witness ==
    /\ call # NoCall
    /\ call.st = "returned"
    /\ Len(call.chunk_embeddings) >= 2
    /\ call.chunk_embeddings[1] # call.chunk_embeddings[2]
    /\ call.chunk_texts[1] # call.chunk_texts[2]

\* C6: request i of a call is the request for chunk i (no chunk is requested
\* twice), and a failed request is the last one the call issues: the call has
\* then raised the service's error and returns no list.
C6_FailedRequestAborts ==
    call # NoCall /\ invocation.average = "unset" =>
        LET T == encode(invocation.text)
            M == invocation.max_tokens
        IN \A i \in 1..Len(call.requests) :
              /\ call.requests[i].input = ExpectedChunk(T, M, i)
              /\ (~call.requests[i].ok =>
                     /\ i = Len(call.requests)
                     /\ call.st = "raised"
                     /\ call.exc = "APIError"
                     /\ Len(call.chunk_embeddings) = i - 1)

\* The second request of a call failed while chunks were still to come.
C6_Witness ==
    /\ call # NoCall
    /\ call.st = "raised"
    /\ call.exc = "APIError"
    /\ Len(call.requests) = 2
    /\ call.requests[1].ok
    /\ NumChunks(encode(invocation.text), invocation.max_tokens) > 2

\* The token-count-weighted average of the vectors vs of chunks of the sizes
\* ws, each component as the exact fraction num / den.
WeightedAverage(vs, ws) ==
    [j \in 1..2 |->
        [num |-> SumTo([i \in 1..Len(vs) |-> ws[i] * vs[i][j]], Len(vs)),
         den |-> SumTo(ws, Len(ws))]]

\* C7: a call on a text that is not empty, with max_tokens >= 1, that ends
\* without a failed request returns the weighted average of the chunk vectors when average is
\* selected, and the list of chunk vectors (with the chunk texts) otherwise.
C7_AverageMode ==
    (/\ call # NoCall
     /\ call.st # "running"
     /\ invocation.text # <<>>
     /\ invocation.max_tokens >= 1
     /\ \A i \in 1..Len(call.requests) : call.requests[i].ok) =>
        /\ call.st = "returned"
        /\ IF invocation.average = "True"
           THEN Returned(call) =
                    WeightedAverage(call.chunk_embeddings,
                                    [i \in 1..Len(call.requests) |-> Len(call.requests[i].input)])
           ELSE Returned(call) = <<call.chunk_embeddings, call.chunk_texts>>

\* ------------------------------------------------------- bulk loop, claims
\* The file (position in files) and the chunk index a row's id names.
RowFile(row) ==
    CHOOSE k \in 1..Len(files) : \E i \in 0..Len(data) : row.id = RowId(k - 1, i)

RowChunk(row) == CHOOSE i \in 0..Len(data) : row.id = RowId(RowFile(row) - 1, i)

\* The rows of file k in data, in the order of data.
DataOf(k) == SelectSeq(data, LAMBDA row : RowFile(row) = k)

\* Text i of the chunks of file k under the limit process_file uses.
FileChunkText(k, i) ==
    decode(ExpectedChunk(encode(FileText(files[k])), EMBEDDING_CTX_LENGTH, i))

FileNumChunks(k) == NumChunks(encode(FileText(files[k])), EMBEDDING_CTX_LENGTH)

\* data holds, for file k, one row per chunk, in chunk order.
CompleteRows(k) ==
    /\ Len(DataOf(k)) = FileNumChunks(k)
    /\ \A i \in 1..FileNumChunks(k) :
          /\ DataOf(k)[i].id = RowId(k - 1, i - 1)
          /\ DataOf(k)[i].text = FileChunkText(k, i)

RECURSIVE RowsInOrder(_)
\* The rows of the tasks that returned, in the order of the futures ks.
RowsInOrder(ks) ==
    IF ks = <<>> THEN <<>>
    ELSE (IF futures[Head(ks)].pc = "done" THEN futures[Head(ks)].result ELSE <<>>)
             \o RowsInOrder(Tail(ks))

RECURSIVE ErrorsInOrder(_)
\* The exceptions of the tasks that raised, in the order of the futures ks.
ErrorsInOrder(ks) ==
    IF ks = <<>> THEN <<>>
    ELSE (IF futures[Head(ks)].pc = "failed" THEN <<ErrorMessage(futures[Head(ks)])>> ELSE <<>>)
             \o ErrorsInOrder(Tail(ks))

\* C8: the loop over as_completed is never left by the exception of a task:
\* whatever the order of completion, data is the rows of the collected tasks
\* that returned, errors the printed exceptions of those that raised (one
\* each), and when the CSV is written every submitted file has been
\* processed to its end and collected.
C8_FailureIsolated ==
    /\ main # "aborted"
    /\ data = RowsInOrder(collected)
    /\ errors = ErrorsInOrder(collected)
    /\ (main = "written" =>
          \A k \in 1..Len(files) :
             /\ futures[k].pc \in {"done", "failed"}
             /\ Cardinality({i \in 1..Len(collected) : collected[i] = k}) = 1)

\* The CSV is written after a failed task was collected before a task that
\* returned rows.
C8_Witness ==
    /\ main = "written"
    /\ Len(collected) >= 2
    /\ futures[collected[1]].pc = "failed"
    /\ futures[collected[2]].pc = "done"
    /\ futures[collected[2]].result # <<>>
    /\ data # <<>>

\* Three files were processed, the classification request of file 2 failed,
\* every other request and every read succeeded, and the CSV is written.
ClassificationOfFile2Failed ==
    /\ main = "written"
    /\ Len(files) = 3
    /\ futures[2].trace # <<>>
    /\ futures[2].trace[Len(futures[2].trace)] = [kind |-> "categorize", ok |-> FALSE]
    /\ \A k \in {1, 3} :
          /\ futures[k].pc = "done"
          /\ \A i \in 1..Len(futures[k].trace) : futures[k].trace[i].ok

C10_RowsOfADocumentInChunkOrder ==
    main \in {"collecting", "written"} =>
        \A p \in 1..Len(data) :
            /\ data[p].text = FileChunkText(RowFile(data[p]), RowChunk(data[p]) + 1)
            /\ \A q \in (p + 1)..Len(data) :
                  RowFile(data[p]) = RowFile(data[q]) =>
                      /\ RowChunk(data[q]) - RowChunk(data[p]) = q - p
                      /\ \A m \in p..q : RowFile(data[m]) = RowFile(data[p])

\* The row of the second file was collected before the two rows of the first.
C10_Witness ==
    /\ Len(data) = 3
    /\ RowFile(data[1]) = 2
    /\ RowFile(data[2]) = 1
    /\ RowFile(data[3]) = 1
    /\ data[2].text # data[3].text

\* The columns of the CSV file.
fieldnames ==
    {"id", "vector_id", "title", "text", "title_vector", "content_vector", "category"}

\* The vector the embedding service answers for chunk i of file k.
FileChunkVector(k, i) ==
    EmbeddingOf(ExpectedChunk(encode(FileText(files[k])), EMBEDDING_CTX_LENGTH, i))

C12_RowsOrErrorNamingTheFile ==
    main = "written" =>
        \A k \in 1..Len(files) :
            \/ futures[k].pc = "done" /\ CompleteRows(k)
            \/ /\ DataOf(k) = <<>>
               /\ \E i \in 1..Len(errors) : errors[i].file = files[k]

\* C14 as claimed: a second loop over the sequence a call of the splitter
\* returned, made after the first loop consumed it entirely, receives the
\* same chunks again.
C14_Original == again = "exhausted" => batches_again = batches

\* C14 amended: the sequence is single-pass.  A second loop over it, made
\* after the first loop consumed it entirely, ends at once and receives no
\* chunk, and the generator stays finished at the end of the tokens.
C14_SecondLoopReceivesNothing ==
    again # "no" =>
        /\ again = "exhausted"
        /\ batches_again = <<>>
        /\ chunks_iterator.st = "finished"
        /\ chunks_iterator.it = Len(encode(chunks_iterator.text))

\* A second loop has ended over a generator whose first loop received at
\* least two chunks.
C14_Witness ==
    /\ again = "exhausted"
    /\ Len(batches) >= 2
    /\ chunks_iterator.st = "finished"

\* C15: data is changed by the main thread only, one collected future at a
\* time: a step that changes data is a turn of the loop over as_completed
\* that appends the whole result of the future it hands out and changes no
\* task; a step of a worker thread changes the task of one file only (its
\* own locals and row list) and leaves data as it is.
C15_OnlyTheCollectorExtendsData ==
    [][/\ (data' # data =>
              /\ main = "collecting"
              /\ futures' = futures
              /\ Len(collected') = Len(collected) + 1
              /\ data' = data \o futures[collected'[Len(collected')]].result)
       /\ (futures' # futures =>
              /\ data' = data
              /\ collected' = collected
              /\ (Len(futures') = Len(futures) =>
                     \E k \in 1..Len(futures) :
                        \A j \in 1..Len(futures) : j # k => futures'[j] = futures[j]))]_vars

\* Rows of one file are in data while the worker threads of two other files
\* are still running, one of them with vectors in its own lists.
C15_Witness ==
    /\ main = "collecting"
    /\ data # <<>>
    /\ \E j, k \in 1..Len(futures) :
          /\ j # k
          /\ futures[j].pc = "categorize"
          /\ futures[j].content_vectors # <<>>
          /\ futures[k].pc \in {"title", "content"}

\* The labels of the vocabulary.
Labels == {categories[i] : i \in 1..Len(categories)}

\* The last request in the trace of the task of file k.
LastRequest(k) == futures[k].trace[Len(futures[k].trace)]

\* C16 as claimed: the category of every row in data is one of the labels.
C16_Original ==
    \A p \in 1..Len(data) :
        ~data[p].category.none /\ data[p].category.content \in Labels

\* C16 amended: the category of every row in data is what categorize_text
\* returned for the row's file: the text of the completion the chat service
\* answered, whether or not it is one of the labels, and None when the
\* request failed; all rows of a file carry the same category.
C16_CategoryIsTheCompletionOrNone ==
    \A p \in 1..Len(data) :
        LET k == RowFile(data[p])
        IN /\ LastRequest(k).kind = "categorize"
           /\ data[p].category = futures[k].category
           /\ IF LastRequest(k).ok
              THEN ~data[p].category.none /\ data[p].category.content \in Completions
              ELSE data[p].category = None

\* The CSV file has a row whose category is a sentence, not a label, a row
\* whose category is a label and a row whose category is None.
C16_Witness ==
    /\ main = "written"
    /\ \E p, q, r \in 1..Len(csv) :
          /\ ~csv[p].category.none
          /\ csv[p].category.content \notin Labels
          /\ csv[q].category.content \in Labels
          /\ csv[r].category = None

\* C17: len_safe_get_embedding issues its embedding requests one at a time
\* and in chunk order, at most one per chunk: a step of the call issues at
\* most one request, the request it issues is the one for the chunk after
\* the last chunk requested, and it is issued only when the vector of every
\* earlier request has been received and appended to chunk_embeddings.
C17_OneRequestPerChunkInOrder ==
    [][call # NoCall /\ call' # call =>
          LET T == encode(invocation.text)
              M == invocation.max_tokens
              n == Len(call.requests)
          IN /\ Len(call'.requests) \in {n, n + 1}
             /\ SubSeq(call'.requests, 1, n) = call.requests
             /\ (Len(call'.requests) = n + 1 =>
                    /\ call'.requests[n + 1].input = ExpectedChunk(T, M, n + 1)
                    /\ Len(call.chunk_embeddings) = n
                    /\ \A i \in 1..n :
                          /\ call.requests[i].ok
                          /\ call.chunk_embeddings[i] = call.requests[i].embedding)
             /\ (call'.st = "returned" => n = NumChunks(T, M))]_vars

\* The third request of a call has been answered after two earlier vectors
\* were appended.
C17_Witness ==
    /\ call # NoCall
    /\ call.st = "running"
    /\ Len(call.requests) = 3
    /\ Len(call.chunk_embeddings) = 3
    /\ call.requests[1].input # call.requests[3].input

\* A step of the task of file k has failed: the read, an embedding request,
\* or anything else that made process_file raise.
StepFailed(k) ==
    \/ futures[k].pc = "failed"
    \/ \E i \in 1..Len(futures[k].trace) :
          futures[k].trace[i].kind \in {"title", "content"} /\ ~futures[k].trace[i].ok

\* C19: a file whose task failed at any step has no row, at any moment: the
\* task returns no row list, and neither data nor the CSV file holds a row
\* with an id of that file, however many of its chunks were embedded before
\* the failure.
C19_AllOrNothing ==
    \A k \in 1..Len(futures) :
        StepFailed(k) =>
            /\ futures[k].pc = "failed"
            /\ futures[k].result = <<>>
            /\ \A p \in 1..Len(data) : \A i \in 0..FileNumChunks(k) :
                  data[p].id # RowId(k - 1, i)
            /\ \A p \in 1..Len(csv) : \A i \in 0..FileNumChunks(k) :
                  csv[p].id # RowId(k - 1, i)

\* The CSV file is written after the task of a file of two chunks failed at
\* the request for its second chunk, the title and the first chunk embedded.
C19_Witness ==
    /\ main = "written"
    /\ csv # <<>>
    /\ \E k \in 1..Len(futures) :
          /\ futures[k].pc = "failed"
          /\ futures[k].trace = <<[kind |-> "title", ok |-> TRUE],
                                  [kind |-> "content", ok |-> TRUE],
                                  [kind |-> "content", ok |-> FALSE]>>

\* C20: a failed classification request never makes categorize_text raise:
\* the error is printed by categorize_text, None is returned, the task of the
\* file returns one row per chunk, every row with category None, and once
\* the future is collected these rows are in data and the loop has printed
\* an error for the failed tasks only, not for this file.
C20_CategorizeNeverRaises ==
    \A k \in 1..Len(futures) :
        futures[k].trace # <<>> /\ LastRequest(k) = [kind |-> "categorize", ok |-> FALSE] =>
            /\ futures[k].pc = "done"
            /\ futures[k].exc = "none"
            /\ futures[k].cat_printed
            /\ futures[k].category = None
            /\ Len(futures[k].result) = FileNumChunks(k)
            /\ \A i \in 1..Len(futures[k].result) : futures[k].result[i].category = None
            /\ ((\E c \in 1..Len(collected) : collected[c] = k) =>
                   /\ DataOf(k) = futures[k].result
                   /\ Len(errors) =
                         Cardinality({c \in 1..Len(collected) : futures[collected[c]].pc = "failed"}))

\* The CSV file holds the two rows of a file of two chunks, both with
\* category None, and the loop has printed no error.
C20_Witness ==
    /\ main = "written"
    /\ errors = <<>>
    /\ \E k \in 1..Len(futures) :
          /\ LastRequest(k) = [kind |-> "categorize", ok |-> FALSE]
          /\ Len(DataOf(k)) = 2
          /\ DataOf(k)[1].category = None
          /\ DataOf(k)[2].category = None

\* The rank of a kind of request in the order process_file makes them.
KindRank(kind) == IF kind = "title" THEN 1 ELSE IF kind = "content" THEN 2 ELSE 3

\* The number of requests of a kind in the trace of the task of file k.
CountKind(k, kind) ==
    Cardinality({i \in 1..Len(futures[k].trace) : futures[k].trace[i].kind = kind})

\* C21: the requests of the task of one file are made in a fixed order: the
\* embedding requests of the title, then the embedding requests of the
\* content, in chunk order, then at most one classification request, which
\* is made only after every embedding request of the file succeeded and
\* exactly once by a task that has left categorize_text.
C21_RequestOrder ==
    \A k \in 1..Len(futures) :
        LET trace == futures[k].trace
        IN /\ \A i \in 1..Len(trace) : \A j \in (i + 1)..Len(trace) :
                 /\ KindRank(trace[i].kind) <= KindRank(trace[j].kind)
                 /\ trace[i].ok
                 /\ trace[i].kind # "categorize"
           /\ CountKind(k, "title") <= NumChunks(encode(files[k]), EMBEDDING_CTX_LENGTH)
           /\ CountKind(k, "content") <= FileNumChunks(k)
           /\ (futures[k].pc = "content" =>
                 /\ Len(futures[k].frame.requests) = CountKind(k, "content")
                 /\ \A i \in 1..Len(futures[k].frame.requests) :
                       futures[k].frame.requests[i].input =
                           ExpectedChunk(encode(FileText(files[k])), EMBEDDING_CTX_LENGTH, i))
           /\ (CountKind(k, "categorize") = 1 =>
                 /\ CountKind(k, "title") = NumChunks(encode(files[k]), EMBEDDING_CTX_LENGTH)
                 /\ CountKind(k, "content") = FileNumChunks(k))
           /\ (futures[k].pc = "done" => CountKind(k, "categorize") = 1)

\* The task of a file of two chunks has returned after one title request,
\* two content requests and one classification request.
C21_Witness ==
    \E k \in 1..Len(futures) :
        /\ futures[k].pc = "done"
        /\ Len(futures[k].trace) = 4
        /\ futures[k].trace[1].kind = "title"
        /\ futures[k].trace[2].kind = "content"
        /\ futures[k].trace[3].kind = "content"
        /\ futures[k].trace[4].kind = "categorize"

\* The number of rows the tasks 1..k returned.
RECURSIVE RowsReturned(_)
RowsReturned(k) ==
    IF k = 0 THEN 0 ELSE Len(futures[k].result) + RowsReturned(k - 1)

\* C22: when the CSV file is written, the task of every submitted file has
\* finished and the loop has handled each file once: the rows of a task
\* that returned are in data, once, and no error was printed for it; a task
\* that raised has no row in data and one error was printed for it.
C22_EveryFileHandledOnce ==
    main = "written" =>
        /\ Len(futures) = Len(files)
        /\ Len(collected) = Len(files)
        /\ \A k \in 1..Len(files) :
              /\ \E c \in 1..Len(collected) : collected[c] = k
              /\ IF futures[k].pc = "done"
                 THEN DataOf(k) = futures[k].result
                 ELSE futures[k].pc = "failed" /\ DataOf(k) = <<>>
        /\ Len(data) = RowsReturned(Len(files))
        /\ Len(errors) = Cardinality({k \in 1..Len(files) : futures[k].pc = "failed"})
        /\ csv = data

\* The CSV file is written after three files were handled, the last
\* submitted first; one task raised, one returned rows.
C22_Witness ==
    /\ main = "written"
    /\ Len(files) = 3
    /\ collected[1] = 3
    /\ Len(errors) = 1
    /\ futures[1].pc = "failed"
    /\ csv # <<>>

\* C23: the ids f"{idx}_{i}" of different pairs of a file index and a chunk
\* index are different; in data, whatever the files and the order of
\* completion, no two rows have the same id, and the vector_id of every row
\* is its id.
C23_RowIdsUnique ==
    /\ (futures = <<>> =>
          \A a, b, c, d \in 0..MaxIndex :
              RowId(a, b) = RowId(c, d) => a = c /\ b = d)
    /\ \A p \in 1..Len(data) :
          /\ data[p].vector_id = data[p].id
          /\ \E k \in 1..Len(files) : \E i \in 1..FileNumChunks(k) :
                data[p].id = RowId(k - 1, i - 1)
          /\ \A q \in 1..Len(data) : data[p].id = data[q].id => p = q

\* data holds the rows of three files, those of the last submitted first.
C23_Witness ==
    /\ Len(data) >= 3
    /\ data[1].id = RowId(2, 0)
    /\ \E p, q \in 1..Len(data) : data[p].id = RowId(0, 0) /\ data[q].id = RowId(1, 0)

\* C24: two rows of data that belong to the same file have the same title
\* (the text of the first title chunk), the same title_vector (the vector
\* answered for the first title chunk) and the same category; they differ
\* in id and vector_id.
C24_DocumentFieldsShared ==
    \A p \in 1..Len(data) :
        LET k == RowFile(data[p])
            title == ExpectedChunk(encode(files[k]), EMBEDDING_CTX_LENGTH, 1)
        IN /\ data[p].title = decode(title)
           /\ data[p].title_vector = json_dumps(EmbeddingOf(title))
           /\ \A q \in 1..Len(data) :
                 p # q /\ RowFile(data[q]) = k =>
                     /\ data[q].title = data[p].title
                     /\ data[q].title_vector = data[p].title_vector
                     /\ data[q].category = data[p].category
                     /\ data[q].id # data[p].id
                     /\ data[q].vector_id # data[p].vector_id

\* data holds two rows of one file that differ in text and content_vector
\* and carry a category, and a row of another file with another title.
C24_Witness ==
    \E p, q, r \in 1..Len(data) :
        /\ p # q
        /\ RowFile(data[p]) = RowFile(data[q])
        /\ data[p].text # data[q].text
        /\ data[p].content_vector # data[q].content_vector
        /\ data[p].category # None
        /\ data[r].title # data[p].title

\* C25: the task of a file whose text has no token, once the file is read
\* and the title embedded, makes no embedding request for the content, makes
\* one classification request and returns zero rows; it does not raise,
\* and once it is collected data has no row of it and the loop has printed
\* errors for the failed tasks only.
C25_EmptyDocument ==
    \A k \in 1..Len(futures) :
        encode(FileText(files[k])) = <<>> =>
            /\ CountKind(k, "content") = 0
            /\ futures[k].result = <<>>
            /\ (CountKind(k, "title") >= 1 /\ futures[k].trace[1].ok /\ futures[k].pc # "title" =>
                   /\ futures[k].pc \in {"content", "categorize", "done"}
                   /\ futures[k].exc = "none"
                   /\ CountKind(k, "categorize") = (IF futures[k].pc = "done" THEN 1 ELSE 0)
                   /\ ((\E c \in 1..Len(collected) : collected[c] = k) =>
                          /\ futures[k].pc = "done"
                          /\ DataOf(k) = <<>>
                          /\ Len(errors) = Cardinality({c \in 1..Len(collected) :
                                                          futures[collected[c]].pc = "failed"})))

\* The CSV file is written after a file without tokens was processed with
\* one title request and one classification request, next to a file that
\* gave a row; no error was printed.
C25_Witness ==
    /\ main = "written"
    /\ errors = <<>>
    /\ csv # <<>>
    /\ \E k \in 1..Len(futures) :
          /\ encode(FileText(files[k])) = <<>>
          /\ futures[k].pc = "done"
          /\ Len(futures[k].trace) = 2
          /\ futures[k].trace[2].kind = "categorize"
          /\ DataOf(k) = <<>>

\* C26: for every text and every limit M >= 1 the chunk generator
\* terminates: every turn of its loop that yields takes at least one and at
\* most M tokens from the iterator, a turn that finds the iterator empty
\* ends the generator, and a consumer that keeps iterating reaches that end.
C26_GeneratorTerminates ==
    /\ [][outcome = "iterating" /\ chunks_iterator.n >= 1 =>
             LET taken == chunks_iterator'.it - chunks_iterator.it
                 left == Len(encode(chunks_iterator.text)) - chunks_iterator.it
             IN IF left = 0
                THEN outcome' = "exhausted" /\ taken = 0 /\ batches' = batches
                ELSE /\ outcome' = "iterating"
                     /\ taken >= 1
                     /\ taken <= chunks_iterator.n
                     /\ taken <= left
                     /\ Len(batches') = Len(batches) + 1]_vars
    /\ (outcome = "iterating" /\ chunks_iterator.n >= 1 ~> outcome = "exhausted")

\* The generator has ended after it gave four chunks of one token.
C26_Witness ==
    /\ outcome = "exhausted"
    /\ chunks_iterator.n = 1
    /\ Len(batches) = 4
    /\ chunks_iterator.st = "finished"

\* The number of entries of the sequence rs that equal x.
Count(rs, x) == Cardinality({i \in 1..Len(rs) : rs[i] = x})

\* C27: running the upload cell again over the same CSV file inserts the
\* rows again: after the runs, the table holds every row of the file once
\* per run whose insertion was accepted (n copies after n such runs), each
\* with its vector as a list of numbers, while the table is created by the
\* first run that reaches create_table only if it did not exist, and never
\* a second time.
C27_UploadNotIdempotent ==
    uploads # <<>> =>
        LET n == Count(uploads, "inserted")
            ins == rows_to_insert(csv)
        IN /\ table.created <= 1
           /\ (table.created = 1 => table.exists)
           /\ Len(table.rows) = n * Len(csv)
           /\ \A i \in 1..Len(ins) :
                 /\ Count(table.rows, ins[i]) = n * Count(ins, ins[i])
                 /\ ins[i].content_vector \in Vectors
                 /\ json_dumps(ins[i].content_vector) = csv[i].content_vector

\* Three runs over a file of two rows have all inserted their rows, and the
\* first of them created the table.
C27_Witness ==
    /\ uploads = <<"inserted", "inserted", "inserted">>
    /\ Len(csv) = 2
    /\ table.created = 1
    /\ Len(table.rows) = 6

====
